---- MODULE Spec2Model ----
(***************************************************************************)
(* The collaborative room subsystem of fantasmia-ai: the action handler of *)
(* api/admin/rooms.ts over its Redis store (one RoomState record per room  *)
(* code, a TTL per key and the live-room index set rooms:all).             *)
(*                                                                         *)
(* JavaScript strings are sequences of tokens (" " is the whitespace       *)
(* token), so that trimming and concatenation are computed, not assumed.   *)
(* A nullable value is <<>> (null / undefined) or <<v>>.  Times are epoch  *)
(* milliseconds, as in the code.                                           *)
(***************************************************************************)
EXTENDS Integers, Sequences, FiniteSets, TLC

\* ---------------------------------------------------------------- bounds
MaxTicks == 2        \* clock advances in one run of Spec
MaxVersion == 6      \* highest version a record is driven to in Spec
MaxWriters == 2      \* joins accepted per room
MaxInFlight == 2     \* requests that may overlap (SpecConc)
MaxConcTicks == 1    \* clock advances in one run of SpecConc
MaxConcVersion == 4  \* highest version a record is driven to in SpecConc
VersionLimit == 12    \* stands for 2^53, where adding 1 to a Number changes nothing

\* ------------------------------------------------------ program constants
TtlFallback == 12
TtlMin == 1
TtlMax == 48
TurnFallback == 180
TurnMin == 15
TurnMax == 600
FloorTtl == 60
MsPerSecond == 1000
MsPerHour == 3600 * 1000

None == <<>>
Some(v) == <<v>>

Max(a, b) == IF a >= b THEN a ELSE b

\* Math.ceil(a / b) for b > 0 (a may be negative: Math.ceil(-0.001) = 0).
CeilDiv(a, b) == -((-a) \div b)

\* ---------------------------------------------------------------- strings
IsSpace(c) == c = " "

RECURSIVE TrimLeft(_)
TrimLeft(s) == IF s # <<>> /\ IsSpace(Head(s)) THEN TrimLeft(Tail(s)) ELSE s

RECURSIVE TrimRight(_)
TrimRight(s) ==
  IF s # <<>> /\ IsSpace(s[Len(s)]) THEN TrimRight(SubSeq(s, 1, Len(s) - 1)) ELSE s

\* (x) => (x ? String(x).trim() : "")
normalizeKey(x) == IF x = <<>> THEN <<>> ELSE TrimRight(TrimLeft(x))

\* Number(x) of a missing field is NaN: the fallback; otherwise clamp.
clampNumber(x, fallback, min, max) ==
  IF x = None THEN fallback
  ELSE IF x[1] < min THEN min
  ELSE IF x[1] > max THEN max
  ELSE x[1]

Digit == <<"1", "2", "3", "4", "5", "6", "7", "8", "9">>

\* `Writer ${n}`
WriterName(n) == <<"Writer", " ", Digit[n]>>

\* ------------------------------------------------------------- room state
\* const st: RoomState = {...} of action create
NewRoom(room, title, mode, ttl_h, t) ==
  [ room_name            |-> room,
    activity_title       |-> title,
    room_mode            |-> mode,
    prompt_seed          |-> <<>>,
    story_so_far         |-> <<>>,
    writers              |-> <<>>,
    current_writer_index |-> 0,
    turn_ends_at         |-> None,
    turn_paused          |-> FALSE,
    turn_remaining_ms    |-> None,
    version              |-> 1,
    updated_at           |-> t,
    expires_at           |-> t + ttl_h * MsPerHour ]

bump_keepsVersion(st, t) == [st EXCEPT !.updated_at = t]

\* st.version = (st.version || 0) + 1; st.updated_at = now(). The version is
\* a Number: from 2^53 on (VersionLimit here) the sum is the number itself.
bump(st, t) ==
  [st EXCEPT !.version = IF st.version < VersionLimit THEN st.version + 1 ELSE st.version,
             !.updated_at = t]

AddWriter_front(st) ==
  [st EXCEPT !.writers = <<WriterName(Len(st.writers) + 1)>> \o @]

AddWriter_repeat(st) ==
  [st EXCEPT !.writers = Append(@, WriterName(Max(1, Len(st.writers))))]

\* const writer = `Writer ${st.writers.length + 1}`; st.writers.push(writer)
AddWriter(st) ==
  [st EXCEPT !.writers = Append(@, WriterName(Len(st.writers) + 1))]

NextIndex_stay(st) == st.current_writer_index

NextIndex_noWrap(st) == st.current_writer_index + 1

\* (st.current_writer_index + 1) % st.writers.length
NextIndex(st) == (st.current_writer_index + 1) % Len(st.writers)

Remaining_deadline(st, t) == st.turn_ends_at[1]

\* Math.max(0, st.turn_ends_at - now())
Remaining(st, t) == Max(0, st.turn_ends_at[1] - t)

CloseTurn_keep(st) == st

\* st.turn_ends_at = null; st.turn_paused = false; st.turn_remaining_ms = null
CloseTurn(st) ==
  [st EXCEPT !.turn_ends_at = None, !.turn_paused = FALSE, !.turn_remaining_ms = None]

ttlSeconds_floorDiv(st, t) == Max(FloorTtl, (st.expires_at - t) \div MsPerSecond)

\* Math.max(60, Math.ceil((st.expires_at - now()) / 1000))
ttlSeconds(st, t) == Max(FloorTtl, CeilDiv(st.expires_at - t, MsPerSecond))

getRoomWithExpiry_noCheck(got, t) == [st |-> got, expired |-> FALSE]

\* The part of getRoomWithExpiry after redis.get has answered `got`.
getRoomWithExpiry(got, t) ==
  IF got = None THEN [st |-> None, expired |-> FALSE]
  ELSE IF t > got[1].expires_at THEN [st |-> None, expired |-> TRUE]
  ELSE [st |-> got, expired |-> FALSE]

\* ------------------------------------------------------ handler outcomes
\* status: the HTTP status; key: the room code; pre: what redis.get
\* answered (None when the handler returned before reading); purge: the
\* expired record is deleted and removed from the index; save: the record
\* handed to saveRoom.
Reply(status, key) ==
  [status |-> status, key |-> key, pre |-> None, purge |-> FALSE, save |-> None]

Gone(key, got, g, okIfGone) ==
  [ status |-> IF okIfGone THEN 200 ELSE IF g.expired THEN 410 ELSE 404,
    key |-> key, pre |-> got, purge |-> g.expired, save |-> None ]

Refuse_resaves(status, key, got) ==
  [status |-> status, key |-> key, pre |-> got, purge |-> FALSE, save |-> got]

Refuse(status, key, got) ==
  [status |-> status, key |-> key, pre |-> got, purge |-> FALSE, save |-> None]

Saved(key, got, st) ==
  [status |-> 200, key |-> key, pre |-> got, purge |-> FALSE, save |-> Some(st)]

\* ------------------------------------------------- the handler's branches
\* Each branch is the synchronous block of the handler that runs once
\* redis.get has answered `got`, at time t = now().

\* ---- the admin token (verifyAdmin)
\* A segment of a token is a sequence of strings. The MAC is taken as
\* collision-free: the digest names the key and the signed text.
AdminSecret == <<"ADMIN_JWT_SECRET">>
OtherSecret == <<"another secret">>

hmacSha256(secret, data) == <<"hmac-sha256">> \o secret \o <<":">> \o data

\* JSON.parse(Buffer.from(p, "base64url").toString("utf8")): the payload
\* segment is the text {"role": <role>, "exp": <exp>}, or not JSON at all.
JsonParse(p) ==
  IF Len(p) = 4 /\ p[1] = "role" /\ p[3] = "exp"
  THEN Some([role |-> p[2], exp |-> p[4]]) ELSE None

\* The JSON numbers among the exp values (seconds); any other is a string.
NumberOf == ("0" :> 0 @@ "86400" :> 86400)

\* auth: the Authorization header, [scheme: what precedes the token,
\* token: the segments that token.split(".") yields].
verifyAdmin(auth, t) ==
  LET seg(i) == IF i <= Len(auth.token) THEN auth.token[i] ELSE <<>>
      h == seg(1)
      p == seg(2)
      sg == seg(3)
      payload == JsonParse(p)
  IN  /\ auth.scheme = <<"Bearer", " ">>
      /\ h # <<>> /\ p # <<>> /\ sg # <<>>
      /\ AdminSecret # <<>>
      /\ hmacSha256(AdminSecret, h \o <<".">> \o p) = sg
      /\ payload # None
      /\ payload[1].role = "ADMIN"
      /\ payload[1].exp \in DOMAIN NumberOf
      /\ ~(NumberOf[payload[1].exp] * MsPerSecond <= t)

status(req) ==
  IF ~req.admin THEN Reply(401, <<>>) ELSE Reply(200, <<>>)

create(req, t) ==
  IF ~req.admin THEN Reply(401, <<>>)
  ELSE
    LET room  == IF normalizeKey(req.room_name) # <<>>
                 THEN normalizeKey(req.room_name) ELSE req.random
        ttl_h == clampNumber(req.ttl_h, TtlFallback, TtlMin, TtlMax)
        title == IF normalizeKey(req.activity_title) # <<>>
                 THEN normalizeKey(req.activity_title) ELSE room
        mode  == IF req.room_mode # <<>> THEN req.room_mode ELSE <<"CONTINUA_TU">>
    IN  Saved(room, None, NewRoom(room, title, mode, ttl_h, t))

join_noBump(req, got, t) ==
  LET key == normalizeKey(req.room)
      g   == getRoomWithExpiry(got, t)
  IN  IF key = <<>> THEN Reply(400, key)
      ELSE IF g.st = None THEN Gone(key, got, g, FALSE)
      ELSE
        Saved(key, got, AddWriter(g.st[1]))

join(req, got, t) ==
  LET key == normalizeKey(req.room)
      g   == getRoomWithExpiry(got, t)
  IN  IF key = <<>> THEN Reply(400, key)
      ELSE IF g.st = None THEN Gone(key, got, g, FALSE)
      ELSE
        Saved(key, got, bump(AddWriter(g.st[1]), t))

next_turn_noWritersCheck(req, got, t) ==
  LET key == normalizeKey(req.room)
      g   == getRoomWithExpiry(got, t)
  IN  IF ~req.admin THEN Reply(401, key)
      ELSE IF key = <<>> THEN Reply(400, key)
      ELSE IF g.st = None THEN Gone(key, got, g, FALSE)
      ELSE
        LET st          == g.st[1]
            turnSeconds == clampNumber(req.turn_s, TurnFallback, TurnMin, TurnMax)
        IN  Saved(key, got, bump(
              [st EXCEPT
                 !.current_writer_index = IF Len(st.writers) = 0 THEN 0 ELSE NextIndex(st),
                 !.turn_paused = FALSE,
                 !.turn_remaining_ms = None,
                 !.turn_ends_at = Some(t + turnSeconds * MsPerSecond)], t))

next_turn(req, got, t) ==
  LET key == normalizeKey(req.room)
      g   == getRoomWithExpiry(got, t)
  IN  IF ~req.admin THEN Reply(401, key)
      ELSE IF key = <<>> THEN Reply(400, key)
      ELSE IF g.st = None THEN Gone(key, got, g, FALSE)
      ELSE IF Len(g.st[1].writers) = 0 THEN Refuse(409, key, got)
      ELSE
        LET st          == g.st[1]
            turnSeconds == clampNumber(req.turn_s, TurnFallback, TurnMin, TurnMax)
        IN  Saved(key, got, bump(
              [st EXCEPT
                 !.current_writer_index = NextIndex(st),
                 !.turn_paused = FALSE,
                 !.turn_remaining_ms = None,
                 !.turn_ends_at = Some(t + turnSeconds * MsPerSecond)], t))

pause_turn_fromIdle(req, got, t) ==
  LET key == normalizeKey(req.room)
      g   == getRoomWithExpiry(got, t)
  IN  IF ~req.admin THEN Reply(401, key)
      ELSE IF g.st = None THEN Gone(key, got, g, FALSE)
      ELSE IF g.st[1].turn_paused THEN Refuse(409, key, got)
      ELSE
        LET st        == g.st[1]
            remaining == IF st.turn_ends_at = None THEN 0 ELSE Remaining(st, t)
        IN  Saved(key, got, bump(
              [st EXCEPT
                 !.turn_paused = TRUE,
                 !.turn_remaining_ms = Some(remaining),
                 !.turn_ends_at = None], t))

pause_turn(req, got, t) ==
  LET key == normalizeKey(req.room)
      g   == getRoomWithExpiry(got, t)
  IN  IF ~req.admin THEN Reply(401, key)
      ELSE IF g.st = None THEN Gone(key, got, g, FALSE)
      ELSE IF g.st[1].turn_paused THEN Refuse(409, key, got)
      ELSE IF g.st[1].turn_ends_at = None THEN Refuse(409, key, got)
      ELSE
        LET st        == g.st[1]
            remaining == Remaining(st, t)
        IN  Saved(key, got, bump(
              [st EXCEPT
                 !.turn_paused = TRUE,
                 !.turn_remaining_ms = Some(remaining),
                 !.turn_ends_at = None], t))

resume_turn(req, got, t) ==
  LET key == normalizeKey(req.room)
      g   == getRoomWithExpiry(got, t)
  IN  IF ~req.admin THEN Reply(401, key)
      ELSE IF g.st = None THEN Gone(key, got, g, FALSE)
      ELSE IF ~g.st[1].turn_paused \/ g.st[1].turn_remaining_ms = None
           THEN Refuse(409, key, got)
      ELSE
        LET st        == g.st[1]
            remaining == Max(0, st.turn_remaining_ms[1])
        IN  Saved(key, got, bump(
              [st EXCEPT
                 !.turn_paused = FALSE,
                 !.turn_remaining_ms = None,
                 !.turn_ends_at = Some(t + remaining)], t))

stop_turn(req, got, t) ==
  LET key == normalizeKey(req.room)
      g   == getRoomWithExpiry(got, t)
  IN  IF ~req.admin THEN Reply(401, key)
      ELSE IF g.st = None THEN Gone(key, got, g, FALSE)
      ELSE
        Saved(key, got, bump(CloseTurn(g.st[1]), t))

CurrentWriter_oneBased(st) ==
  IF st.current_writer_index \in DOMAIN st.writers
  THEN Some(st.writers[st.current_writer_index]) ELSE None

\* st.writers[st.current_writer_index]: undefined (None) out of range.
CurrentWriter(st) ==
  IF st.current_writer_index + 1 \in DOMAIN st.writers
  THEN Some(st.writers[st.current_writer_index + 1]) ELSE None

AppendText_overwrite(story, text) == text

\* st.story_so_far += (st.story_so_far ? "\n" : "") + text
AppendText(story, text) ==
  story \o (IF story # <<>> THEN <<"\n">> ELSE <<>>) \o text

submit_text_nextTurn(req, got, t) ==
  LET key == normalizeKey(req.room)
      g   == getRoomWithExpiry(got, t)
  IN  IF g.st = None THEN Gone(key, got, g, FALSE)
      ELSE IF g.st[1].turn_paused THEN Refuse(409, key, got)
      ELSE IF g.st[1].turn_ends_at = None THEN Refuse(409, key, got)
      ELSE IF g.st[1].turn_ends_at[1] <= t THEN Refuse(409, key, got)
      ELSE
        LET st        == g.st[1]
            writer_id == normalizeKey(req.writer_id)
        IN  IF writer_id = <<>> \/ Some(writer_id) # CurrentWriter(st)
            THEN Refuse(403, key, got)
            ELSE Saved(key, got, bump(
                   [st EXCEPT !.story_so_far = AppendText(@, req.text),
                              !.turn_ends_at = Some(t + TurnFallback * MsPerSecond),
                              !.current_writer_index =
                                 IF Len(st.writers) > 0 THEN NextIndex(st) ELSE @], t))

submit_text(req, got, t) ==
  LET key == normalizeKey(req.room)
      g   == getRoomWithExpiry(got, t)
  IN  IF g.st = None THEN Gone(key, got, g, FALSE)
      ELSE IF g.st[1].turn_paused THEN Refuse(409, key, got)
      ELSE IF g.st[1].turn_ends_at = None THEN Refuse(409, key, got)
      ELSE IF g.st[1].turn_ends_at[1] <= t THEN Refuse(409, key, got)
      ELSE
        LET st        == g.st[1]
            writer_id == normalizeKey(req.writer_id)
        IN  IF writer_id = <<>> \/ Some(writer_id) # CurrentWriter(st)
            THEN Refuse(403, key, got)
            ELSE Saved(key, got, bump(
                   [CloseTurn([st EXCEPT !.story_so_far = AppendText(@, req.text)])
                      EXCEPT !.current_writer_index =
                         IF Len(st.writers) > 0 THEN NextIndex(st) ELSE @], t))

delete_room_expiresNow(req, got, t) ==
  LET key == normalizeKey(req.room)
      g   == getRoomWithExpiry(got, t)
  IN  IF ~req.admin THEN Reply(401, key)
      ELSE IF key = <<>> THEN Reply(400, key)
      ELSE IF g.st = None THEN Gone(key, got, g, TRUE)
      ELSE
        Saved(key, got, bump(
          [g.st[1] EXCEPT
             !.expires_at = t,
             !.turn_paused = TRUE,
             !.turn_ends_at = None,
             !.turn_remaining_ms = None], t))

delete_room(req, got, t) ==
  LET key == normalizeKey(req.room)
      g   == getRoomWithExpiry(got, t)
  IN  IF ~req.admin THEN Reply(401, key)
      ELSE IF key = <<>> THEN Reply(400, key)
      ELSE IF g.st = None THEN Gone(key, got, g, TRUE)
      ELSE
        Saved(key, got, bump(
          [g.st[1] EXCEPT
             !.expires_at = t - 1,
             !.turn_paused = TRUE,
             !.turn_ends_at = None,
             !.turn_remaining_ms = None], t))

get_state(req, got, t) ==
  LET key == normalizeKey(req.room)
      g   == getRoomWithExpiry(got, t)
  IN  IF g.st = None THEN Gone(key, got, g, FALSE)
      ELSE Refuse(200, key, got)

\* The if-chain of handler over body.action, after
\* const isAdmin = verifyAdmin(req): the field admin of the request holds it.
handler(req, got, t) ==
  LET r == [req EXCEPT !.admin = verifyAdmin(req.auth, t)]
  IN  CASE r.action = "status"      -> status(r)
        [] r.action = "create"      -> create(r, t)
        [] r.action = "join"        -> join(r, got, t)
        [] r.action = "next_turn"   -> next_turn(r, got, t)
        [] r.action = "pause_turn"  -> pause_turn(r, got, t)
        [] r.action = "resume_turn" -> resume_turn(r, got, t)
        [] r.action = "stop_turn"   -> stop_turn(r, got, t)
        [] r.action = "submit_text" -> submit_text(r, got, t)
        [] r.action = "delete_room" -> delete_room(r, got, t)
        [] r.action = "get_state"   -> get_state(r, got, t)
        [] OTHER                    -> Reply(400, <<>>)

\* ---- list_rooms
toSummary(room, st) ==
  [ room |-> room,
    room_name |-> st.room_name,
    activity_title |-> st.activity_title,
    room_mode |-> st.room_mode,
    writers_count |-> Len(st.writers),
    current_writer |->
      IF Len(st.writers) > 0 /\ st.current_writer_index + 1 \in DOMAIN st.writers
      THEN Some(st.writers[st.current_writer_index + 1]) ELSE None,
    turn_ends_at |-> st.turn_ends_at,
    turn_paused |-> st.turn_paused,
    turn_remaining_ms |-> st.turn_remaining_ms,
    version |-> st.version,
    updated_at |-> st.updated_at,
    expires_at |-> st.expires_at ]

\* rooms.sort((a, b) => a.expires_at - b.expires_at): a stable sort.
RECURSIVE InsertByExpiry(_, _)
InsertByExpiry(sorted, x) ==
  IF sorted = <<>> THEN <<x>>
  ELSE IF sorted[Len(sorted)].expires_at - x.expires_at <= 0
       THEN Append(sorted, x)
       ELSE Append(InsertByExpiry(SubSeq(sorted, 1, Len(sorted) - 1), x),
                   sorted[Len(sorted)])

SortByExpiry_unsorted(rooms) == rooms

RECURSIVE SortByExpiry(_)
SortByExpiry(rooms) ==
  IF rooms = <<>> THEN <<>>
  ELSE InsertByExpiry(SortByExpiry(SubSeq(rooms, 1, Len(rooms) - 1)), rooms[Len(rooms)])

\* ids: what redis.smembers answered, in the order it answered; db: the
\* store. Every id is read with getRoomWithExpiry; purge: the expired
\* rooms it removes on the way.
RECURSIVE Summaries(_, _, _)
Summaries(ids, db, t) ==
  IF ids = <<>> THEN <<>>
  ELSE LET id == ids[1]
           g  == getRoomWithExpiry(IF id \in DOMAIN db THEN Some(db[id].val) ELSE None, t)
       IN  (IF g.st # None THEN <<toSummary(id, g.st[1])>> ELSE <<>>)
             \o Summaries(Tail(ids), db, t)

list_rooms(req, ids, db, t) ==
  IF ~verifyAdmin(req.auth, t)
  THEN [status |-> 401, purge |-> {}, rooms |-> <<>>]
  ELSE [ status |-> 200,
         purge |-> {ids[i] : i \in {j \in DOMAIN ids :
                      getRoomWithExpiry(IF ids[j] \in DOMAIN db
                                        THEN Some(db[ids[j]].val) ELSE None, t).expired}},
         rooms |-> SortByExpiry(Summaries(ids, db, t)) ]

\* The key the handler reads with redis.get (create reads nothing).
KeyOf(req) == normalizeKey(req.room)

\* ------------------------------------------------------------------ state
VARIABLES
  now,      \* Date.now(), epoch ms
  ticks,    \* how often the clock has advanced (bounds the run)
  redis,    \* the keys rooms:room:<code>: code -> [val: RoomState, exp: ms at which Redis drops the key]
  index,    \* the set rooms:all
  reqs,     \* requests in flight between their awaits (SpecConc)
  overlap,  \* history: some request started while another was in flight
  subs,     \* history: submit_text calls accepted in the room's current turn
  clk,      \* history: per room, the duration d of the turn started last, the
            \* time it has been active before the running stretch, and the
            \* start of the running stretch
  made,     \* history: per code, the expires_at of the record saved last and
            \* the time of that save, until a read finds the record expired
            \* and removes it
  links     \* the invite endpoints: the token issued last and the claims made

vars == <<now, ticks, redis, index, reqs, overlap, subs, clk, made, links>>

AllKeys == {<<"r1">>, <<"r2">>}

ReqIds == 1..MaxInFlight
Idle == [pc |-> "idle"]

\* No invite issued, no claim answered yet. issued: what create-room answered
\* last, with the exp and turn_s of the signed payload; answer: the last
\* answer of claim-room; minted, tries: how many of each were served;
\* claims, gone: how many claims of the issued token were answered 200, 410.
NoLinks ==
  [issued |-> None, answer |-> None, minted |-> 0, tries |-> 0, claims |-> 0, gone |-> 0]

Init ==
  /\ now = 0
  /\ ticks = 0
  /\ redis = <<>>
  /\ index = {}
  /\ reqs = [i \in ReqIds |-> Idle]
  /\ overlap = FALSE
  /\ subs = [k \in AllKeys |-> 0]
  /\ clk = [k \in AllKeys |-> [d |-> 0, used |-> 0, seg |-> 0]]
  /\ made = [k \in AllKeys |-> None]
  /\ links = NoLinks

\* ------------------------------------------------------------------ Redis
\* redis.get: null once the key is gone.
RedisGet(key) == IF key \in DOMAIN redis THEN Some(redis[key].val) ELSE None

\* redis.set(key, st, { ex: ttlSeconds }) executed at time t.
RedisSet(db, key, st, ttl, t) ==
  [k \in DOMAIN db \cup {key} |->
     IF k = key THEN [val |-> st, exp |-> t + ttl * MsPerSecond] ELSE db[k]]

\* redis.del
RedisDel(db, key) == [k \in DOMAIN db \ {key} |-> db[k]]

\* Redis drops every key whose time-to-live has run out by time t.
RedisExpire(db, t) == [k \in {x \in DOMAIN db : db[x].exp > t} |-> db[k]]

\* ------------------------------------------------------------- histories
\* A turn window opens when next_turn or resume_turn (or a new room) is written.
SubsOnWrite(s, req, out) ==
  IF out.save # None /\ req.action \in {"create", "next_turn", "resume_turn"}
  THEN [s EXCEPT ![out.key] = 0] ELSE s

\* An accepted submit_text counts from the moment its record is written.
SubsOnAnswer(s, req, out) ==
  IF out.save # None /\ req.action = "submit_text"
  THEN [s EXCEPT ![out.key] = @ + 1] ELSE s

ClkOnWrite(c, req, out, t) ==
  IF out.save = None THEN c
  ELSE CASE req.action = "create" ->
              [c EXCEPT ![out.key] = [d |-> 0, used |-> 0, seg |-> 0]]
         [] req.action = "next_turn" ->
              [c EXCEPT ![out.key] =
                 [d |-> out.save[1].turn_ends_at[1] - t, used |-> 0, seg |-> t]]
         [] req.action = "pause_turn" ->
              [c EXCEPT ![out.key].used = @ + (t - c[out.key].seg)]
         [] req.action = "resume_turn" ->
              [c EXCEPT ![out.key].seg = t]
         [] req.action \in {"stop_turn", "submit_text", "delete_room"} ->
              [c EXCEPT ![out.key] = [d |-> 0, used |-> 0, seg |-> 0]]
         [] OTHER -> c

MadeOnWrite(m, out) ==
  IF out.save # None
  THEN [m EXCEPT ![out.key] = Some([expires_at |-> out.save[1].expires_at,
                                    saved_at |-> out.save[1].updated_at])]
  ELSE m

MadeOnPurge(m, out) ==
  IF out.purge THEN [m EXCEPT ![out.key] = None] ELSE m

\* The model stops driving a room at version maxVersion and MaxWriters writers.
Bounded(out, maxVersion) ==
  IF out.save = None THEN TRUE
  ELSE out.save[1].version <= maxVersion /\ Len(out.save[1].writers) <= MaxWriters

\* ---------------------------------------------------------------- inputs
\* Authorization headers: none; a valid admin token; tokens that differ
\* from it in one respect.
JwtHeader == <<"alg", "HS256", "typ", "JWT">>
JwtPayload(role, exp) == <<"role", role, "exp", exp>>
Bearer(token) == [scheme |-> <<"Bearer", " ">>, token |-> token]
Signed(secret, h, p) == <<h, p, hmacSha256(secret, h \o <<".">> \o p)>>

NoAuth == [scheme |-> <<>>, token |-> <<>>]
AdminAuth == Bearer(Signed(AdminSecret, JwtHeader, JwtPayload("ADMIN", "86400")))
AuthInputs ==
  { NoAuth, AdminAuth,
    [AdminAuth EXCEPT !.scheme = <<"Basic", " ">>],
    Bearer(Signed(AdminSecret, JwtHeader, JwtPayload("ADMIN", "0"))),
    Bearer(Signed(AdminSecret, JwtHeader, JwtPayload("ADMIN", "tomorrow"))),
    Bearer(Signed(AdminSecret, JwtHeader, JwtPayload("NSU_SESSION", "86400"))),
    Bearer(Signed(AdminSecret, JwtHeader, <<"not json">>)),
    Bearer(Signed(OtherSecret, JwtHeader, JwtPayload("ADMIN", "86400"))),
    Bearer(SubSeq(AdminAuth.token, 1, 2)),
    Bearer(AdminAuth.token \o <<<<"x">>>>) }

BaseReq ==
  [action |-> "", auth |-> NoAuth, admin |-> FALSE, room |-> <<>>, room_name |-> <<>>,
   random |-> <<>>, activity_title |-> <<>>, room_mode |-> <<>>,
   ttl_h |-> None, turn_s |-> None, writer_id |-> <<>>, text |-> <<>>]

RoomInputs == {<<>>, <<"r1">>, <<" ", "r1">>}
NameInputs == {<<>>, <<"r1", " ">>}
RandomCodes == {<<"r1">>}
TtlInputs == {Some(0), Some(1)}
TurnInputs == {None, Some(1)}
WriterInputs == {<<>>, WriterName(1), WriterName(2), <<" ">> \o WriterName(1)}
TextInputs == {<<>>, <<"a">>}

\* Requests of the public actions carry no Authorization header; those of
\* the admin actions carry a valid admin token (admin) or none.
Anonymous == [BaseReq EXCEPT !.action = "create", !.room = <<"r1">>]
CreateReqs ==
  {[BaseReq EXCEPT !.action = "create", !.auth = AdminAuth, !.room_name = n,
                   !.random = c, !.ttl_h = h] :
     n \in NameInputs, c \in RandomCodes, h \in TtlInputs} \cup {Anonymous}
PublicReqs(action) ==
  {[BaseReq EXCEPT !.action = action, !.room = r] : r \in RoomInputs}
AdminReqs(action) ==
  {[BaseReq EXCEPT !.action = action, !.auth = AdminAuth, !.room = r] : r \in RoomInputs}
    \cup {[Anonymous EXCEPT !.action = action]}
JoinReqs == PublicReqs("join")
NextTurnReqs ==
  {[BaseReq EXCEPT !.action = "next_turn", !.auth = AdminAuth, !.room = <<"r1">>,
                   !.turn_s = s] : s \in TurnInputs}
    \cup AdminReqs("next_turn")
SubmitReqs ==
  {[BaseReq EXCEPT !.action = "submit_text", !.room = <<"r1">>,
                   !.writer_id = w, !.text = x] :
     w \in WriterInputs, x \in TextInputs}
    \cup {[q EXCEPT !.writer_id = WriterName(1)] : q \in PublicReqs("submit_text")}

\* ------------------------------------------- one request at a time (Spec)
\* The whole handler: redis.get, the synchronous block, then either the
\* cleanup of an expired room (del, srem) or saveRoom (set, sadd).
Serve(req) ==
  LET out == handler(req, RedisGet(KeyOf(req)), now)
  IN  /\ \A i \in ReqIds : reqs[i] = Idle
      /\ Bounded(out, MaxVersion)
      /\ redis' = IF out.purge THEN RedisDel(redis, out.key)
                  ELSE IF out.save # None
                  THEN RedisSet(redis, out.key, out.save[1],
                                ttlSeconds(out.save[1], now), now)
                  ELSE redis
      /\ index' = IF out.purge THEN index \ {out.key}
                  ELSE IF out.save # None THEN index \cup {out.key}
                  ELSE index
      /\ subs' = SubsOnAnswer(SubsOnWrite(subs, req, out), req, out)
      /\ clk' = ClkOnWrite(clk, req, out, now)
      /\ made' = MadeOnWrite(MadeOnPurge(made, out), out)
      /\ UNCHANGED <<now, ticks, reqs, overlap, links>>

Create == \E req \in CreateReqs : Serve(req)
Join == \E req \in JoinReqs : Serve(req)
NextTurn == \E req \in NextTurnReqs : Serve(req)
PauseTurn == \E req \in AdminReqs("pause_turn") : Serve(req)
ResumeTurn == \E req \in AdminReqs("resume_turn") : Serve(req)
StopTurn == \E req \in AdminReqs("stop_turn") : Serve(req)
SubmitText == \E req \in SubmitReqs : Serve(req)
DeleteRoom == \E req \in AdminReqs("delete_room") : Serve(req)
GetState == \E req \in PublicReqs("get_state") : Serve(req)
Status == \E a \in AuthInputs : Serve([BaseReq EXCEPT !.action = "status", !.auth = a])

\* The orders in which redis.smembers may answer the members of a set.
Orders(S) ==
  {f \in [1..Cardinality(S) -> S] : \A i, j \in 1..Cardinality(S) : f[i] = f[j] => i = j}

ListReqs == {[BaseReq EXCEPT !.action = "list_rooms", !.auth = a] : a \in AuthInputs}

\* list_rooms: the index is read, then every room of it in turn.
ListRoomsOf(calls) ==
  \E req \in calls : \E ids \in Orders(index) :
    LET out == list_rooms(req, ids, redis, now)
    IN  /\ \A i \in ReqIds : reqs[i] = Idle
        /\ redis' = [k \in DOMAIN redis \ out.purge |-> redis[k]]
        /\ index' = index \ out.purge
        /\ made' = [k \in AllKeys |-> IF k \in out.purge THEN None ELSE made[k]]
        /\ UNCHANGED <<now, ticks, reqs, overlap, subs, clk, links>>

ListRooms == ListRoomsOf(ListReqs)

\* The instants at which something stored falls due: the end of a turn, a
\* room's expires_at, the end of a key's time-to-live.
Deadlines ==
  UNION {{redis[k].val.expires_at, redis[k].exp} \cup
         {redis[k].val.turn_ends_at[i] : i \in DOMAIN redis[k].val.turn_ends_at} :
         k \in DOMAIN redis}

\* Time passes, by a millisecond or up to a deadline; Redis drops the keys
\* whose time-to-live has run out.
Advance(maxTicks) ==
  /\ ticks < maxTicks
  /\ \E t \in {now + 1} \cup {d \in Deadlines : d > now} :
       /\ now' = t
       /\ redis' = RedisExpire(redis, t)
  /\ ticks' = ticks + 1
  /\ UNCHANGED <<index, reqs, overlap, subs, clk, made, links>>

Tick == Advance(MaxTicks)

Next ==
  \/ Create
  \/ Join
  \/ NextTurn
  \/ PauseTurn
  \/ ResumeTurn
  \/ StopTurn
  \/ SubmitText
  \/ DeleteRoom
  \/ GetState
  \/ Status
  \/ ListRooms
  \/ Tick

Spec == Init /\ [][Next]_vars

\* ------------------------------------------ overlapping requests (SpecConc)
\* A request is in flight between its awaits: after redis.get and the
\* synchronous block it waits for redis.set and then redis.sadd (saveRoom),
\* or for redis.del and then redis.srem (the cleanup of an expired room).
\* Requests of other callers run in between.
ConcReqs ==
  {[BaseReq EXCEPT !.action = "create", !.auth = AdminAuth, !.room_name = <<"r1">>,
                   !.ttl_h = Some(1)]}
    \cup {[BaseReq EXCEPT !.action = a, !.auth = AdminAuth, !.room = <<"r1">>] :
            a \in {"join", "next_turn", "pause_turn", "resume_turn", "stop_turn",
                   "delete_room", "get_state"}}
    \cup {[BaseReq EXCEPT !.action = "submit_text", !.room = <<"r1">>,
                          !.writer_id = w, !.text = <<"a">>] :
            w \in {WriterName(1), WriterName(2)}}

InFlight == {i \in ReqIds : reqs[i] # Idle}

\* The request arrives: redis.get and the synchronous block of the handler.
\* Bounds of the exploration: overlapping requests drive a record up to
\* MaxConcVersion, runs without overlap up to MaxVersion; a create arrives
\* when nothing is in flight, and on an existing code only in a run without
\* overlap; a delete_room arrives in a run without overlap when nothing is
\* in flight.
Arrive(i, req) ==
  LET out == handler(req, RedisGet(KeyOf(req)), now)
      pc  == IF out.purge THEN "del" ELSE IF out.save # None THEN "set" ELSE "done"
  IN  /\ reqs[i] = Idle
      /\ \A j \in ReqIds : j < i => reqs[j] # Idle
      /\ Bounded(out, IF overlap \/ InFlight # {} THEN MaxConcVersion ELSE MaxVersion)
      /\ req.action = "create" => (InFlight = {} /\ (redis = <<>> \/ ~overlap))
      /\ req.action = "delete_room" => (InFlight = {} /\ ~overlap)
      /\ reqs' = IF pc = "done" THEN reqs
                 ELSE [reqs EXCEPT ![i] =
                         [pc |-> pc, req |-> req, out |-> out,
                          ttl |-> IF pc = "set" THEN ttlSeconds(out.save[1], now) ELSE 0]]
      /\ overlap' = (overlap \/ (pc # "done" /\ InFlight # {}))
      /\ UNCHANGED <<now, ticks, redis, index, subs, clk, made, links>>

\* saveRoom: await redis.set(KEY_ROOM(room), st, { ex: ttlSeconds })
SetStep(i) ==
  /\ reqs[i] # Idle
  /\ reqs[i].pc = "set"
  /\ redis' = RedisSet(redis, reqs[i].out.key, reqs[i].out.save[1], reqs[i].ttl, now)
  /\ subs' = SubsOnAnswer(SubsOnWrite(subs, reqs[i].req, reqs[i].out),
                          reqs[i].req, reqs[i].out)
  /\ reqs' = [reqs EXCEPT ![i].pc = "sadd"]
  /\ made' = MadeOnWrite(made, reqs[i].out)
  /\ UNCHANGED <<now, ticks, index, overlap, clk, links>>

\* saveRoom: await redis.sadd(KEY_ROOMS_SET, room); then the answer is sent.
SaddStep(i) ==
  /\ reqs[i] # Idle
  /\ reqs[i].pc = "sadd"
  /\ index' = index \cup {reqs[i].out.key}
  /\ reqs' = [reqs EXCEPT ![i] = Idle]
  /\ UNCHANGED <<now, ticks, redis, overlap, subs, clk, made, links>>

\* getRoomWithExpiry: await redis.del(KEY_ROOM(room))
DelStep(i) ==
  /\ reqs[i] # Idle
  /\ reqs[i].pc = "del"
  /\ redis' = RedisDel(redis, reqs[i].out.key)
  /\ reqs' = [reqs EXCEPT ![i].pc = "srem"]
  /\ made' = MadeOnPurge(made, reqs[i].out)
  /\ UNCHANGED <<now, ticks, index, overlap, subs, clk, links>>

\* getRoomWithExpiry: await redis.srem(KEY_ROOMS_SET, room); then the answer.
SremStep(i) ==
  /\ reqs[i] # Idle
  /\ reqs[i].pc = "srem"
  /\ index' = index \ {reqs[i].out.key}
  /\ reqs' = [reqs EXCEPT ![i] = Idle]
  /\ UNCHANGED <<now, ticks, redis, overlap, subs, clk, made, links>>

ConcTick == Advance(MaxConcTicks)

NextConc ==
  \/ \E i \in ReqIds, req \in ConcReqs : Arrive(i, req)
  \/ \E i \in ReqIds : SetStep(i)
  \/ \E i \in ReqIds : SaddStep(i)
  \/ \E i \in ReqIds : DelStep(i)
  \/ \E i \in ReqIds : SremStep(i)
  \/ ConcTick

SpecConc == Init /\ [][NextConc]_vars

\* ================================================================ claims
\* What the handler answers to req in the current state.
Out(req) == handler(req, RedisGet(KeyOf(req)), now)

AdminActions ==
  {"create", "next_turn", "pause_turn", "resume_turn", "stop_turn", "delete_room"}

\* The requests of Spec that address room k and pass the admin check.
RoomCalls(k) ==
  {req \in JoinReqs \cup NextTurnReqs \cup AdminReqs("pause_turn")
             \cup AdminReqs("resume_turn") \cup AdminReqs("stop_turn")
             \cup SubmitReqs \cup PublicReqs("get_state") :
     KeyOf(req) = k /\ (req.action \in AdminActions => verifyAdmin(req.auth, now))}

IsPrefix(a, b) == Len(a) <= Len(b) /\ SubSeq(b, 1, Len(a)) = a

Spaces(n) == [i \in 1..n |-> " "]

\* The turn is running at time t.
Active(st, t) ==
  ~st.turn_paused /\ st.turn_ends_at # None /\ st.turn_ends_at[1] > t

\* w is exactly the identifier of the current writer.
IsCurrent(st, w) ==
  /\ st.current_writer_index < Len(st.writers)
  /\ w = st.writers[st.current_writer_index + 1]

\* w is the identifier of the current writer, possibly with whitespace around it.
IsCurrentPadded(st, w) ==
  /\ st.current_writer_index < Len(st.writers)
  /\ \E i, j \in 0..Len(w) :
       w = Spaces(i) \o st.writers[st.current_writer_index + 1] \o Spaces(j)

\* The room is stored and not past expires_at, as the code reads it.
Live(k) == k \in DOMAIN redis /\ now <= redis[k].val.expires_at

MutatingReqs ==
  JoinReqs \cup NextTurnReqs \cup AdminReqs("pause_turn") \cup AdminReqs("resume_turn")
    \cup AdminReqs("stop_turn") \cup SubmitReqs \cup AdminReqs("delete_room")

\* C2: every successful mutating call (join, next_turn, pause_turn,
\* resume_turn, stop_turn, submit_text, delete_room) on a stored room raises
\* the stored version by exactly 1 and sets updated_at to the time of the
\* call; create stores version 1; no step lowers a room's version except a
\* create.
C2_VersionStep ==
  /\ [](\A req \in MutatingReqs :
          LET k == KeyOf(req)
          IN  (Live(k) /\ Out(req).status = 200) =>
                /\ Out(req).save # None
                /\ Out(req).save[1].version = redis[k].val.version + 1
                /\ Out(req).save[1].updated_at = now)
  /\ [][\A k \in DOMAIN redis' :
          \/ k \in DOMAIN redis /\ redis'[k].val = redis[k].val
          \/ /\ k \in DOMAIN redis
             /\ redis'[k].val.version = redis[k].val.version + 1
             /\ redis'[k].val.updated_at = now
          \/ \* a create
             /\ redis'[k].val.version = 1
             /\ redis'[k].val.updated_at = now
             /\ redis'[k].val.writers = <<>>
        ]_vars

\* A room has been mutated up to MaxVersion, the last time after the clock moved.
C2_Witness ==
  \E k \in DOMAIN redis :
    redis[k].val.version = MaxVersion /\ redis[k].val.updated_at > 0

C4_RoundRobin ==
  [][ \A req \in NextTurnReqs :
        (Live(KeyOf(req)) /\ Out(req).status = 200 /\ Serve(req)) =>
          LET st == redis[KeyOf(req)].val
              N  == Len(st.writers)
          IN  /\ N >= 1
              /\ redis'[KeyOf(req)].val.current_writer_index
                   = (st.current_writer_index + 1) % N
    ]_vars

\* With two writers and nothing submitted, a turn runs for index 0 again:
\* next_turn has wrapped around.
C4_Witness ==
  \E k \in DOMAIN redis :
    LET st == redis[k].val
    IN  /\ Len(st.writers) = 2
        /\ st.current_writer_index = 0
        /\ st.turn_ends_at # None
        /\ st.story_so_far = <<>>
        /\ st.version >= 5

\* C5: in every stored record 0 <= current_writer_index < max(1, len(writers)),
\* also when requests overlap.
C5_IndexInRange ==
  \A k \in DOMAIN redis :
    LET st == redis[k].val
    IN  /\ 0 <= st.current_writer_index
        /\ st.current_writer_index < Max(1, Len(st.writers))

\* Requests have overlapped, and the index has advanced to the last of two writers.
C5_Witness ==
  /\ overlap
  /\ \E k \in DOMAIN redis :
       Len(redis[k].val.writers) = 2 /\ redis[k].val.current_writer_index = 1

TurnActive(st) == st.turn_ends_at # None /\ ~st.turn_paused
TurnPaused(st) == st.turn_paused /\ st.turn_remaining_ms # None
TurnIdle(st) == st.turn_ends_at = None /\ ~st.turn_paused

\* C6 as stated: every stored record is in exactly one of the turn states
\* active, paused and idle, and turn_remaining_ms is non-null only while
\* turn_paused is true.
C6_AsStated ==
  \A k \in DOMAIN redis :
    LET st == redis[k].val
    IN  /\ Cardinality({s \in {"active", "paused", "idle"} :
                          \/ s = "active" /\ TurnActive(st)
                          \/ s = "paused" /\ TurnPaused(st)
                          \/ s = "idle" /\ TurnIdle(st)}) = 1
        /\ st.turn_remaining_ms # None => st.turn_paused

\* Request i's redis.set of the given action is executed in this step.
WriteBy(i, action) ==
  /\ reqs[i] # Idle
  /\ reqs[i].pc = "set"
  /\ reqs[i].req.action = action
  /\ reqs'[i] # Idle
  /\ reqs'[i].pc = "sadd"

CreateWrites == \E i \in ReqIds : WriteBy(i, "create")

WritersKept ==
  CreateWrites
    \/ \A k \in DOMAIN redis \cap DOMAIN redis' :
         IsPrefix(redis[k].val.writers, redis'[k].val.writers)

\* C7 as stated: the writers of a stored room never shrink and every writer
\* keeps its position, whatever requests overlap (a create starts a new room).
C7_AsStated == [][WritersKept]_vars

\* C7 amended: the same in runs in which no two requests have overlapped.
C7_WritersAppendOnly == [][~overlap' => WritersKept]_vars

\* Without any overlap two writers have joined and the room has been mutated since.
C7_Witness ==
  /\ ~overlap
  /\ \E k \in DOMAIN redis :
       Len(redis[k].val.writers) = 2 /\ redis[k].val.version > 3

StoryKept ==
  CreateWrites
    \/ \A k \in DOMAIN redis \cap DOMAIN redis' :
         IsPrefix(redis[k].val.story_so_far, redis'[k].val.story_so_far)

StoryAppended ==
  CreateWrites
    \/ \A k \in DOMAIN redis \cap DOMAIN redis' :
         LET old == redis[k].val.story_so_far
             submits == {i \in ReqIds : WriteBy(i, "submit_text") /\ reqs[i].out.key = k}
         IN  IF submits = {}
             THEN redis'[k].val.story_so_far = old
             ELSE \A i \in submits :
                    redis'[k].val.story_so_far =
                      old \o (IF old # <<>> THEN <<"\n">> ELSE <<>>) \o reqs[i].req.text

\* C8 as stated: the story of a stored room only grows at its end, so every
\* accepted text stays in it, whatever requests overlap.
C8_AsStated == [][StoryKept]_vars

\* C8 amended: in runs in which no two requests have overlapped, the story
\* changes only by the write of an accepted submit_text, which appends its
\* text once (after a newline when the story is not empty).
C8_StoryAppendOnly == [][~overlap' => StoryAppended]_vars

\* Without any overlap two texts have been accepted, the second after a newline.
C8_Witness ==
  /\ ~overlap
  /\ \E k \in DOMAIN redis : redis[k].val.story_so_far = <<"a", "\n", "a">>

\* C9: while a turn of duration d is paused after an active time t < d,
\* turn_remaining_ms = d - t; after the resume at t2, turn_ends_at =
\* t2 + (d - t), so the active time before and after the pause adds up
\* to d, however long the pause lasts.
C9_PauseResume ==
  \A k \in DOMAIN redis :
    LET st == redis[k].val
        g  == clk[k]
    IN  (g.d > 0 /\ g.used < g.d) =>
          /\ TurnPaused(st) => st.turn_remaining_ms[1] = g.d - g.used
          /\ TurnActive(st) => g.used + (st.turn_ends_at[1] - g.seg) = g.d

\* A turn was paused after a positive active time and has been resumed at a
\* later time than it was opened.
C9_Witness ==
  \E k \in DOMAIN redis :
    LET st == redis[k].val
        g  == clk[k]
    IN  /\ TurnActive(st)
        /\ 0 < g.used /\ g.used < g.d
        /\ g.seg > 0

\* C10 as stated: at most one submit_text is accepted in a turn, whatever
\* requests overlap.
C10_AsStated == \A k \in AllKeys : subs[k] <= 1

\* C10 amended: the same in runs in which no two requests have overlapped.
C10_OneSubmitPerTurn == ~overlap => \A k \in AllKeys : subs[k] <= 1

\* Without any overlap a submit_text has been accepted in the current turn.
C10_Witness == ~overlap /\ \E k \in DOMAIN redis : subs[k] = 1

\* The request of the given action on room k, with the admin token.
AdminCall(action, k) == [BaseReq EXCEPT !.action = action, !.auth = AdminAuth, !.room = k]
PublicCall(action, k) == [BaseReq EXCEPT !.action = action, !.room = k]

\* The store after saveRoom(k, st) at the current time.
StoreWith(k, st) == RedisSet(redis, k, st, ttlSeconds(st, now), now)

\* C11 as stated: delete_room on a live room saves the record with
\* expires_at = now - 1, the turn state cleared (idle, no remaining time)
\* and version + 1; with that record stored, get_state and join answer 410,
\* list_rooms has no summary of the room, and a second delete_room answers
\* 200 and changes neither the store nor the index.
C11_AsStated ==
  \A k \in DOMAIN redis :
    Live(k) =>
      LET out == Out(AdminCall("delete_room", k))
          st  == out.save[1]
          again == handler(AdminCall("delete_room", k), Some(st), now)
      IN  /\ out.status = 200 /\ out.save # None
          /\ st.expires_at = now - 1
          /\ TurnIdle(st) /\ st.turn_remaining_ms = None
          /\ st.version = redis[k].val.version + 1
          /\ handler(PublicCall("get_state", k), Some(st), now).status = 410
          /\ handler(PublicCall("join", k), Some(st), now).status = 410
          /\ \A ids \in Orders(index \cup {k}) :
               \A i \in DOMAIN list_rooms(AdminCall("list_rooms", k), ids, StoreWith(k, st), now).rooms :
                 list_rooms(AdminCall("list_rooms", k), ids, StoreWith(k, st), now).rooms[i].room # k
          /\ again.status = 200 /\ again.save = None /\ ~again.purge

\* C12 as stated: once the expires_at of a room that was created (and not
\* deleted) has passed, and until a read has removed the room, get_state
\* answers 410 and removes the record and its index entry.
C12_AsStated ==
  \A k \in AllKeys :
    (made[k] # None /\ made[k][1].saved_at < made[k][1].expires_at
       /\ now > made[k][1].expires_at) =>
      LET out == Out(PublicCall("get_state", k))
      IN  out.status = 410 /\ out.purge

\* The index holds code k although the expires_at of the room saved under
\* it (and not deleted) has passed.
Stale(k) ==
  /\ k \in index
  /\ made[k] # None
  /\ made[k][1].saved_at < made[k][1].expires_at
  /\ now > made[k][1].expires_at

\* C13 as stated, in the form a finite run refutes: list_rooms and the
\* reads are functions of the store, the index and the clock, so clients
\* that keep issuing them get a stale code removed only if, whenever the
\* index holds a code whose room is past expires_at, a list_rooms and a
\* read of that room remove the code.
C13_AsStated ==
  \A k \in AllKeys :
    Stale(k) =>
      /\ \A ids \in Orders(index) :
           k \in list_rooms(AdminCall("list_rooms", k), ids, redis, now).purge
      /\ \A a \in {"get_state", "join"} : Out(PublicCall(a, k)).purge

\* What the claim asks of an Authorization header: a Bearer token of three
\* segments, the third the MAC of the first two under the admin secret,
\* the second a JSON payload with role ADMIN and a numeric exp in the future.
ValidAdminToken(auth, t) ==
  /\ auth.scheme = <<"Bearer", " ">>
  /\ Len(auth.token) = 3
  /\ \A i \in 1..3 : auth.token[i] # <<>>
  /\ auth.token[3] = hmacSha256(AdminSecret, auth.token[1] \o <<".">> \o auth.token[2])
  /\ JsonParse(auth.token[2]) # None
  /\ JsonParse(auth.token[2])[1].role = "ADMIN"
  /\ JsonParse(auth.token[2])[1].exp \in DOMAIN NumberOf
  /\ NumberOf[JsonParse(auth.token[2])[1].exp] * MsPerSecond > t

AdminOnly ==
  {"status", "create", "next_turn", "pause_turn", "resume_turn", "stop_turn", "delete_room"}

\* C14 as stated: with a valid admin token the admin-only actions are not
\* answered 401; with any other Authorization header they are answered 401
\* and read, save and remove nothing; join, submit_text and get_state are
\* never answered 401.
C14_AsStated ==
  \A a \in AuthInputs : \A k \in {<<"r1">>} :
    /\ \A action \in AdminOnly :
         LET out == Out([BaseReq EXCEPT !.action = action, !.auth = a, !.room = k,
                                        !.room_name = k])
         IN  IF ValidAdminToken(a, now) THEN out.status # 401
             ELSE out.status = 401 /\ out.pre = None /\ out.save = None /\ ~out.purge
    /\ \A ids \in Orders(index) :
         LET out == list_rooms([BaseReq EXCEPT !.action = "list_rooms", !.auth = a],
                               ids, redis, now)
         IN  IF ValidAdminToken(a, now) THEN out.status = 200
             ELSE out.status = 401 /\ out.purge = {} /\ out.rooms = <<>>
    /\ \A action \in {"join", "submit_text", "get_state"} :
         Out([BaseReq EXCEPT !.action = action, !.auth = a, !.room = k]).status # 401

\* ------------------------------------------- the invite endpoints
\* create-room signs a room payload, claim-room verifies it. Texts are
\* sequences of character codes, buffers sequences of bytes.
MaxInviteTicks == 2
MaxTokens == 1
MaxClaims == 3

RoomSecret == <<82, 79, 79, 77>>

Min(a, b) == IF a < b THEN a ELSE b

\* Buffer.toString("base64") with "=" removed, "+" as "-", "/" as "_".
b64url(b) ==
  LET byte(k) == IF k <= Len(b) THEN b[k] ELSE 0
      char(i) ==
        LET g == 3 * ((i - 1) \div 4)
            r == (i - 1) % 4
        IN  IF r = 0 THEN byte(g + 1) \div 4
            ELSE IF r = 1 THEN (byte(g + 1) % 4) * 16 + byte(g + 2) \div 16
            ELSE IF r = 2 THEN (byte(g + 2) % 16) * 4 + byte(g + 3) \div 64
            ELSE byte(g + 3) % 64
      url(v) ==
        IF v < 26 THEN 65 + v
        ELSE IF v < 52 THEN 97 + (v - 26)
        ELSE IF v < 62 THEN 48 + (v - 52)
        ELSE IF v = 62 THEN 45 ELSE 95
  IN  [i \in 1..CeilDiv(Len(b) * 8, 6) |-> url(char(i))]

\* The value of a character for Buffer.from(s, "base64") after "-" became
\* "+" and "_" became "/": -1 for "=", where decoding ends, -2 for a
\* character outside the alphabet, which the decoder passes over.
Unbase64(c) ==
  IF c \in 65..90 THEN c - 65
  ELSE IF c \in 97..122 THEN c - 97 + 26
  ELSE IF c \in 48..57 THEN c - 48 + 52
  ELSE IF c \in {43, 45} THEN 62
  ELSE IF c \in {47, 95} THEN 63
  ELSE IF c = 61 THEN -1 ELSE -2

\* The characters up to the first "=" that are of the alphabet, as values;
\* groups of four give three bytes, and of the last group the bits beyond
\* the last whole byte are dropped.
b64urlToBuf(s) ==
  LET pads == {i \in 1..Len(s) : Unbase64(s[i]) = -1}
      last == IF pads = {} THEN Len(s)
              ELSE (CHOOSE i \in pads : \A j \in pads : i <= j) - 1
      kept == SelectSeq(SubSeq(s, 1, last), LAMBDA c : Unbase64(c) >= 0)
      v    == [i \in 1..Len(kept) |-> Unbase64(kept[i])]
      byte(j) ==
        LET g == 4 * ((j - 1) \div 3)
            r == (j - 1) % 3
        IN  IF r = 0 THEN v[g + 1] * 4 + v[g + 2] \div 16
            ELSE IF r = 1 THEN (v[g + 2] % 16) * 16 + v[g + 3] \div 4
            ELSE (v[g + 3] % 4) * 64 + v[g + 4]
  IN  [j \in 1..((Len(v) * 6) \div 8) |-> byte(j)]

\* Buffer.toString("utf8"): a byte that is not ASCII does not decode to an
\* ASCII character (U+FFFD stands for whatever it decodes to).
Utf8ToString(b) == [i \in 1..Len(b) |-> IF b[i] < 128 THEN b[i] ELSE 65533]

\* Buffer.from(text): the UTF-8 bytes of a text.
RECURSIVE Utf8Bytes(_)
Utf8Bytes(text) ==
  LET wide == {i \in 1..Len(text) : text[i] >= 128}
      first == CHOOSE i \in wide : \A j \in wide : i <= j
  IN  IF wide = {} THEN text
      ELSE SubSeq(text, 1, first - 1) \o <<239, 191, 189>>
             \o Utf8Bytes(SubSeq(text, first + 1, Len(text)))

safeEqual(a, b) == Len(a) = Len(b) /\ a = b

\* HMAC-SHA256 taken as collision-free: the digest holds the key and the text.
createHmac(secret, text) == Utf8Bytes(secret) \o <<0>> \o Utf8Bytes(text)

signRoom(payloadJson, secret) == b64url(createHmac(secret, payloadJson))

\* ---- JSON.stringify and JSON.parse of the room payload
RECURSIVE DigitsOf(_)
DigitsOf(n) == IF n < 10 THEN <<48 + n>> ELSE DigitsOf(n \div 10) \o <<48 + (n % 10)>>

RECURSIVE NatVal(_)
NatVal(ds) ==
  IF ds = <<>> THEN 0 ELSE NatVal(SubSeq(ds, 1, Len(ds) - 1)) * 10 + (ds[Len(ds)] - 48)

\* The number a run of digits denotes, -1 when it is not a number.
NatOf(ds) ==
  IF ds # <<>> /\ Len(ds) <= 9 /\ \A i \in 1..Len(ds) : ds[i] \in 48..57
  THEN NatVal(ds) ELSE -1

\* The text between the values of a payload.
Lit ==
  [ type   |-> <<123, 34, 118, 34, 58, 49, 44, 34, 116, 121, 112, 101, 34, 58, 34>>,  \* {"v":1,"type":"
    room   |-> <<34, 44, 34, 114, 111, 111, 109, 34, 58, 34>>,                        \* ","room":"
    ttl    |-> <<34, 44, 34, 116, 116, 108, 95, 104, 34, 58>>,                        \* ","ttl_h":
    iat    |-> <<44, 34, 105, 97, 116, 34, 58>>,                                      \* ,"iat":
    exp    |-> <<44, 34, 101, 120, 112, 34, 58>>,                                     \* ,"exp":
    name   |-> <<44, 34, 114, 111, 111, 109, 95, 110, 97, 109, 101, 34, 58, 34>>,     \* ,"room_name":"
    turnQ  |-> <<34, 44, 34, 116, 117, 114, 110, 95, 115, 34, 58>>,                   \* ","turn_s":
    turn   |-> <<44, 34, 116, 117, 114, 110, 95, 115, 34, 58>> ]                      \* ,"turn_s":
PUBLIC_ROOM == <<80, 85, 66, 76, 73, 67, 95, 82, 79, 79, 77>>

\* JSON.stringify(payload): the keys in the order of the object literal,
\* room_name left out when undefined.
JSON_stringify(p) ==
  Lit.type \o p.type \o Lit.room \o p.room \o Lit.ttl \o DigitsOf(p.ttl_h)
    \o Lit.iat \o DigitsOf(p.iat) \o Lit.exp \o DigitsOf(p.exp)
    \o (IF p.room_name = <<>> THEN Lit.turn ELSE Lit.name \o p.room_name \o Lit.turnQ)
    \o DigitsOf(p.turn_s) \o <<125>>

StartsAt(text, pos, lit) ==
  /\ pos + Len(lit) - 1 <= Len(text)
  /\ SubSeq(text, pos, pos + Len(lit) - 1) = lit

\* The first position from pos on that holds stop, Len(text) + 1 or pos when none does.
Upto(text, pos, stop) ==
  IF \E i \in pos..Len(text) : text[i] = stop
  THEN CHOOSE i \in pos..Len(text) :
         text[i] = stop /\ \A j \in pos..(i - 1) : text[j] # stop
  ELSE IF pos > Len(text) THEN pos ELSE Len(text) + 1

\* JSON.parse of a text that JSON.stringify made of a room payload; a
\* SyntaxError (None) for any other text.
JSON_parse(text) ==
  LET a1 == Len(Lit.type) + 1
      e1 == Upto(text, a1, 34)
      a2 == e1 + Len(Lit.room)
      e2 == Upto(text, a2, 34)
      a3 == e2 + Len(Lit.ttl)
      e3 == Upto(text, a3, 44)
      a4 == e3 + Len(Lit.iat)
      e4 == Upto(text, a4, 44)
      a5 == e4 + Len(Lit.exp)
      e5 == Upto(text, a5, 44)
      named == StartsAt(text, e5, Lit.name)
      a6 == e5 + Len(Lit.name)
      e6 == Upto(text, a6, 34)
      a7 == IF named THEN e6 + Len(Lit.turnQ) ELSE e5 + Len(Lit.turn)
      e7 == Upto(text, a7, 125)
      p == [type      |-> SubSeq(text, a1, e1 - 1),
            room      |-> SubSeq(text, a2, e2 - 1),
            ttl_h     |-> NatOf(SubSeq(text, a3, e3 - 1)),
            iat       |-> NatOf(SubSeq(text, a4, e4 - 1)),
            exp       |-> NatOf(SubSeq(text, a5, e5 - 1)),
            room_name |-> IF named THEN SubSeq(text, a6, e6 - 1) ELSE <<>>,
            turn_s    |-> NatOf(SubSeq(text, a7, e7 - 1))]
  IN  IF /\ StartsAt(text, 1, Lit.type)
         /\ e7 = Len(text)
         /\ p.ttl_h >= 0 /\ p.iat >= 0 /\ p.exp >= 0 /\ p.turn_s >= 0
         /\ JSON_stringify(p) = text
      THEN Some(p) ELSE None

\* new Date(ms).toISOString(): day, hour, minute, second, millisecond (the
\* day as a count from the epoch).
toISOString(ms) ==
  <<ms \div 86400000, (ms \div 3600000) % 24, (ms \div 60000) % 60,
    (ms \div 1000) % 60, ms % 1000>>

\* String.trim on a text of character codes.
Trim(s) ==
  LET space(i) == s[i] \in {9, 10, 11, 12, 13, 32}
  IN  IF \A i \in 1..Len(s) : space(i) THEN <<>>
      ELSE SubSeq(s,
             CHOOSE i \in 1..Len(s) : ~space(i) /\ \A j \in 1..(i - 1) : space(j),
             CHOOSE i \in 1..Len(s) : ~space(i) /\ \A j \in (i + 1)..Len(s) : space(j))

\* String.split("."): the parts between the separators.
RECURSIVE Split(_, _)
Split(s, sep) ==
  LET e == Upto(s, 1, sep)
  IN  IF e > Len(s) THEN <<s>>
      ELSE <<SubSeq(s, 1, e - 1)>> \o Split(SubSeq(s, e + 1, Len(s)), sep)

\* ---- create-room
\* String.toLowerCase on the word of an Authorization scheme.
toLowerCase(w) == IF w \in {"Bearer", "BEARER", "bearer"} THEN "bearer" ELSE w

signHS256(data, secret) == hmacSha256(secret, data)

\* auth as for verifyAdmin; the scheme in any case, exactly three parts,
\* exp in seconds against the clock in whole seconds.
verifyAdminBearer(auth, t) ==
  LET parts == auth.token
      payload == JsonParse(parts[2])
      nowSec == t \div MsPerSecond
      exp == IF payload[1].exp \in DOMAIN NumberOf THEN NumberOf[payload[1].exp] ELSE 0
  IN  /\ AdminSecret # <<>>
      /\ Len(auth.scheme) = 2
      /\ toLowerCase(auth.scheme[1]) = "bearer"
      /\ auth.scheme[2] = " "
      /\ Len(parts) = 3
      /\ safeEqual(parts[3], signHS256(parts[1] \o <<".">> \o parts[2], AdminSecret))
      /\ payload # None
      /\ ~(exp = 0 \/ nowSec >= exp)
      /\ payload[1].role = "ADMIN"

\* Math.floor of a number given in tenths.
Floor(tenths) == tenths \div 10

NoInvite(code) ==
  [status |-> code, room |-> <<>>, ttl_h |-> 0, expires_at |-> <<>>, token |-> <<>>,
   exp |-> 0, turn_s |-> 0]

\* req: [auth, ttl_h, turn_s: None or Some(tenths), room_name, random: the
\* code randomRoomCode draws]. exp and turn_s of the answer are those of
\* the signed payload.
create_room(req, t) ==
  LET ttlRaw == IF req.ttl_h # None THEN req.ttl_h[1] ELSE 40
      ttl_h == Max(1, Min(Floor(ttlRaw), 24))
      turnRaw == IF req.turn_s # None THEN req.turn_s[1] ELSE 600
      turn_s == Max(15, Min(Floor(turnRaw), 600))
      exp_ms == t + ttl_h * 60 * 60 * 1000
      room == req.random
      payload == [type |-> PUBLIC_ROOM, room |-> room, ttl_h |-> ttl_h, iat |-> t,
                  exp |-> exp_ms, room_name |-> Trim(req.room_name), turn_s |-> turn_s]
      payloadJson == JSON_stringify(payload)
      sig == signRoom(payloadJson, RoomSecret)
      token == b64url(Utf8Bytes(payloadJson)) \o <<46>> \o sig
  IN  IF ~verifyAdminBearer(req.auth, t) THEN NoInvite(401)
      ELSE IF RoomSecret = <<>> THEN NoInvite(500)
      ELSE [status |-> 200, room |-> room, ttl_h |-> ttl_h,
            expires_at |-> toISOString(exp_ms), token |-> token,
            exp |-> exp_ms, turn_s |-> turn_s]

\* ---- claim-room
NoSession(code) ==
  [status |-> code, room |-> <<>>, expires_at |-> <<>>, turn_s |-> 0]

TokenExpired_late(t, exp_ms) == t > exp_ms

TokenExpired(t, exp_ms) == t >= exp_ms

\* body: [token, room], texts, empty when absent.
claim_room(body, t) ==
  LET token == Trim(body.token)
      parts == Split(token, 46)
      payloadB64 == parts[1]
      sig == parts[2]
      payloadJson == Utf8ToString(b64urlToBuf(payloadB64))
      parsed == JSON_parse(payloadJson)
      payload == parsed[1]
      expectedSig == signRoom(payloadJson, RoomSecret)
      room == Trim(payload.room)
      exp_ms == payload.exp
      turn_s == Max(15, Min(payload.turn_s, 600))
  IN  IF RoomSecret = <<>> THEN NoSession(500)
      ELSE IF token = <<>> THEN NoSession(400)
      ELSE IF Len(parts) # 2 THEN NoSession(400)
      ELSE IF parsed = None THEN NoSession(400)
      ELSE IF ~safeEqual(sig, expectedSig) THEN NoSession(401)
      ELSE IF payload.type # PUBLIC_ROOM THEN NoSession(401)
      ELSE IF room = <<>> THEN NoSession(400)
      ELSE IF body.room # <<>> /\ Trim(body.room) # room THEN NoSession(401)
      ELSE IF exp_ms = 0 THEN NoSession(400)
      ELSE IF TokenExpired(t, exp_ms) THEN NoSession(410)
      ELSE [status |-> 200, room |-> room, expires_at |-> toISOString(exp_ms),
            turn_s |-> turn_s]

\* ---- inputs of the invite endpoints
\* Requests to create-room: the defaults; numbers below the floors, a
\* scheme in lower case; numbers above the floor and the ceiling, a room
\* name; no Authorization header; a token of four parts.
InviteReqs ==
  LET InviteDefault ==
        [auth |-> AdminAuth, ttl_h |-> None, turn_s |-> None, room_name |-> <<>>,
         random |-> <<65, 49, 66, 50, 67, 51>>]
  IN  { InviteDefault,
        [InviteDefault EXCEPT !.auth = [AdminAuth EXCEPT !.scheme = <<"bearer", " ">>],
                              !.ttl_h = Some(5), !.turn_s = Some(100)],
        [InviteDefault EXCEPT !.ttl_h = Some(15), !.turn_s = Some(7000),
                              !.room_name = <<32, 76, 97, 98>>,
                              !.random = <<48, 48, 70, 70, 55, 69>>],
        [InviteDefault EXCEPT !.auth = NoAuth],
        [InviteDefault EXCEPT !.auth = Bearer(AdminAuth.token \o <<<<"x">>>>)] }

\* The token with bit b of its i-th character flipped.
Mutated(token, i, b) ==
  [token EXCEPT ![i] = IF (@ \div 2^b) % 2 = 1 THEN @ - 2^b ELSE @ + 2^b]

Dot(token) == Upto(token, 1, 46)

\* What a client may present: nothing, the issued token, the token between
\* spaces, its payload segment alone, the token with one bit flipped in the
\* last character of the payload segment or of the signature segment.
ClaimTokens ==
  {<<>>} \cup
  (IF links.issued = None THEN {}
   ELSE LET tok == links.issued[1].token
        IN  {tok, <<32>> \o tok \o <<10>>, SubSeq(tok, 1, Dot(tok) - 1)}
              \cup {Mutated(tok, Dot(tok) - 1, b) : b \in 0..1}
              \cup {Mutated(tok, Len(tok), 0)})

\* The bodies of claims: each token without a room, the issued token with
\* its own room between spaces and with another room.
ClaimBodies ==
  {[token |-> tok, room |-> <<>>] : tok \in ClaimTokens} \cup
  (IF links.issued = None THEN {}
   ELSE {[token |-> links.issued[1].token, room |-> r] :
           r \in {<<32>> \o links.issued[1].room, <<90>>}})

\* ---- actions of the invite endpoints
CreateRoom ==
  /\ links.minted < MaxTokens
  /\ \E req \in InviteReqs :
       LET out == create_room(req, now)
       IN  links' = IF out.status = 200
                    THEN [NoLinks EXCEPT !.issued = Some(out), !.minted = links.minted + 1]
                    ELSE links
  /\ UNCHANGED <<now, ticks, redis, index, reqs, overlap, subs, clk, made>>

ClaimRoom ==
  /\ links.tries < MaxClaims
  /\ \E body \in ClaimBodies :
       LET out == claim_room(body, now)
           own == links.issued # None /\ body.token = links.issued[1].token
       IN  links' = [links EXCEPT !.answer = Some(out),
                                  !.tries = @ + 1,
                                  !.claims = IF own /\ out.status = 200 THEN @ + 1 ELSE @,
                                  !.gone = IF own /\ out.status = 410 THEN @ + 1 ELSE @]
  /\ UNCHANGED <<now, ticks, redis, index, reqs, overlap, subs, clk, made>>

\* Time passes, by a millisecond or up to the last millisecond before the
\* issued token's exp or to the exp itself.
InviteTick ==
  /\ ticks < MaxInviteTicks
  /\ \E t \in {now + 1} \cup
              (IF links.issued = None THEN {}
               ELSE {d \in {links.issued[1].exp - 1, links.issued[1].exp} : d > now}) :
       /\ now' = t
       /\ redis' = RedisExpire(redis, t)
  /\ ticks' = ticks + 1
  /\ UNCHANGED <<index, reqs, overlap, subs, clk, made, links>>

NextInvite ==
  \/ CreateRoom
  \/ ClaimRoom
  \/ InviteTick

SpecInvite == Init /\ [][NextInvite]_vars

\* The claim of a token alone, no room in the body.
Claim(tok) == claim_room([token |-> tok, room |-> <<>>], now)

\* An invite was issued and its exp lies ahead.
InviteValid == links.issued # None /\ now < links.issued[1].exp

\* C15 as stated: before its exp, claim-room accepts the token create-room
\* issued and answers the room code, expiry and turn_s that were signed,
\* and it rejects every token that differs from the issued one by one bit
\* of the payload segment or of the signature segment.
C15_AsStated ==
  InviteValid =>
    LET inv == links.issued[1]
        tok == inv.token
    IN  /\ Claim(tok) = [status |-> 200, room |-> inv.room,
                         expires_at |-> inv.expires_at, turn_s |-> inv.turn_s]
        /\ \A i \in (1..Len(tok)) \ {Dot(tok)} : \A b \in 0..6 :
             Claim(Mutated(tok, i, b)).status # 200

\* C16: however many claims of the issued token were answered before, a
\* claim of it made while now < exp is answered 200 with the room, expiry
\* and turn_s that were issued, and a claim made at now >= exp is answered
\* 410; a 410 was never given before the exp.
C16_Reusable ==
  links.issued # None =>
    LET inv == links.issued[1]
    IN  /\ IF now < inv.exp
           THEN Claim(inv.token) = [status |-> 200, room |-> inv.room,
                                    expires_at |-> inv.expires_at, turn_s |-> inv.turn_s]
           ELSE Claim(inv.token) = NoSession(410)
        /\ links.gone > 0 => now >= inv.exp

\* Two claims of the token were answered 200 and a later one 410.
C16_Witness == links.claims >= 2 /\ links.gone >= 1

\* The room is live, its turn is Idle with no remaining time, and every
\* submit_text on it is answered 409.
SubmitsRefused(k) ==
  /\ Live(k)
  /\ TurnIdle(redis[k].val)
  /\ redis[k].val.turn_remaining_ms = None
  /\ \A req \in SubmitReqs : KeyOf(req) = k => Out(req).status = 409

\* C17 as stated: once a submit_text on a room has been accepted, and until
\* a next_turn is written, the room, while live, is Idle and answers 409 to
\* every submit_text, whatever requests overlap.
C17_AsStated ==
  \A k \in AllKeys : (subs[k] >= 1 /\ Live(k)) => SubmitsRefused(k)

\* C17 amended: the same in runs in which no two requests have overlapped.
C17_SubmitClosesTurn ==
  ~overlap => \A k \in AllKeys : (subs[k] >= 1 /\ Live(k)) => SubmitsRefused(k)

\* Without any overlap a text was accepted into the story of a room that is
\* still live, and no turn was opened since.
C17_Witness ==
  /\ ~overlap
  /\ \E k \in AllKeys :
       subs[k] >= 1 /\ SubmitsRefused(k) /\ redis[k].val.story_so_far # <<>>

\* ------------------------------------------------ several rooms (SpecList)
\* Two rooms are created, joined, played and deleted, one request at a
\* time, and listed.
MaxListTicks == 1
MaxListVersion == 5

ListedRooms == {<<"r1">>, <<"r2">>}

\* A request served as in Spec, the records driven to MaxListVersion.
ServeListed(req) ==
  /\ Bounded(handler(req, RedisGet(KeyOf(req)), now), MaxListVersion)
  /\ Serve(req)

\* create with one of two lifetimes, join of two writers, next_turn,
\* submit_text of the first writer, delete_room, on either room.
ListedReqs ==
  UNION {
    {[BaseReq EXCEPT !.action = "create", !.auth = AdminAuth, !.room_name = k,
                     !.ttl_h = h] : h \in {Some(1), Some(2)}}
    \cup {[PublicCall("join", k) EXCEPT !.writer_id = w] :
            w \in {WriterName(1), WriterName(2)}}
    \cup {AdminCall("next_turn", k), AdminCall("delete_room", k),
          [PublicCall("submit_text", k) EXCEPT !.writer_id = WriterName(1),
                                               !.text = <<"a">>]} :
    k \in ListedRooms}

ListServe == \E req \in ListedReqs : ServeListed(req)

ListAll == ListRoomsOf({AdminCall("list_rooms", <<>>), PublicCall("list_rooms", <<>>)})

ListTick == Advance(MaxListTicks)

NextList ==
  \/ ListServe
  \/ ListAll
  \/ ListTick

SpecList == Init /\ [][NextList]_vars

\* The rooms list_rooms is to show: in the index, stored, not past expires_at.
Listable == {k \in index : k \in DOMAIN redis /\ ~(now > redis[k].val.expires_at)}

\* C18: whatever the order in which the index is read, list_rooms answers
\* exactly one summary for each room that is in the index, stored and not
\* past expires_at, and none for any other room; the summaries ascend in
\* expires_at; each shows the stored fields of its room, and as
\* current_writer writers[current_writer_index], or null without writers.
C18_ListRooms ==
  \A ids \in Orders(index) :
    LET out == list_rooms(AdminCall("list_rooms", <<>>), ids, redis, now)
        n   == Len(out.rooms)
    IN  /\ out.status = 200
        /\ {out.rooms[i].room : i \in 1..n} = Listable
        /\ n = Cardinality(Listable)
        /\ \A i, j \in 1..n : i < j => out.rooms[i].expires_at <= out.rooms[j].expires_at
        /\ \A i \in 1..n :
             LET sm == out.rooms[i]
                 st == redis[sm.room].val
             IN  /\ sm.current_writer =
                      IF st.writers = <<>> THEN None
                      ELSE Some(st.writers[st.current_writer_index + 1])
                 /\ sm.writers_count = Len(st.writers)
                 /\ sm.expires_at = st.expires_at
                 /\ sm.version = st.version
                 /\ sm.turn_ends_at = st.turn_ends_at

\* Two rooms are listed that expire at different times, the second writer
\* of one is its current writer, the other has no writer.
C18_Witness ==
  /\ \E k, m \in Listable :
       /\ redis[k].val.expires_at < redis[m].val.expires_at
       /\ \E x \in {k, m} : redis[x].val.writers = <<>>
       /\ \E x \in {k, m} : redis[x].val.current_writer_index = 1

\* C19 as stated: the room an accepted create saves has a code that is not
\* the code of a live room, is Idle with version 1 and no writers, and the
\* record of every live room is after the save what it was before.
C19_AsStated ==
  \A req \in CreateReqs :
    LET out == Out(req)
    IN  out.save # None =>
          /\ ~Live(out.key)
          /\ TurnIdle(out.save[1])
          /\ out.save[1].version = 1
          /\ out.save[1].writers = <<>>
          /\ \A k \in DOMAIN redis :
               Live(k) => StoreWith(out.key, out.save[1])[k].val = redis[k].val

\* C20 as stated: Redis drops no record later than the record's expires_at.
C20_AsStated ==
  \A k \in DOMAIN redis : redis[k].exp <= redis[k].val.expires_at

\* C20 amended: a record saved at updated_at is dropped by Redis
\* max(60, ceil((expires_at - updated_at) / 1000)) seconds after the save:
\* never before its expires_at, never less than 60 s after the save, and
\* later than expires_at by less than a second unless the floor applies.
C20_StoreOutlivesRoom ==
  \A k \in DOMAIN redis :
    LET st    == redis[k].val
        left  == st.expires_at - st.updated_at
        drop  == redis[k].exp
    IN  /\ drop >= st.expires_at
        /\ drop >= st.updated_at + FloorTtl * MsPerSecond
        /\ left >= FloorTtl * MsPerSecond => drop < st.expires_at + MsPerSecond
        /\ left < FloorTtl * MsPerSecond => drop = st.updated_at + FloorTtl * MsPerSecond

\* A record is stored that Redis keeps for its floor of 60 s although the
\* record was saved past its expires_at (the record delete_room leaves).
C20_Witness ==
  \E k \in DOMAIN redis :
    LET st == redis[k].val
    IN  /\ st.expires_at < st.updated_at
        /\ redis[k].exp = st.updated_at + FloorTtl * MsPerSecond
        /\ redis[k].exp > st.expires_at

\* The turn fields of two records are the same.
SameTurn(a, b) ==
  /\ a.turn_ends_at = b.turn_ends_at
  /\ a.turn_paused = b.turn_paused
  /\ a.turn_remaining_ms = b.turn_remaining_ms

\* C21: a live room is Idle, Active or Paused, and a request changes the turn
\* state only along these edges: an accepted next_turn leads to Active;
\* pause_turn leads from Active to Paused and is answered 409 from Idle and
\* from Paused; resume_turn leads from Paused to Active and is answered 409
\* from Idle and from Active; stop_turn leads to Idle; an accepted
\* submit_text leads from Active to Idle; join and get_state leave the turn
\* fields as they are.
C21_TurnEdges ==
  \A k \in DOMAIN redis :
    Live(k) =>
      LET st == redis[k].val
      IN  /\ TurnIdle(st) \/ TurnActive(st) \/ TurnPaused(st)
          /\ \A req \in RoomCalls(k) :
                LET out   == Out(req)
                    saved == out.status = 200 /\ out.save # None
                    kept  == out.status = 409 /\ out.save = None
                IN  /\ req.action = "next_turn" =>
                         /\ out.save # None => (saved /\ TurnActive(out.save[1]))
                         /\ st.writers # <<>> => saved
                    /\ req.action = "pause_turn" =>
                         IF TurnActive(st) THEN saved /\ TurnPaused(out.save[1]) ELSE kept
                    /\ req.action = "resume_turn" =>
                         IF TurnPaused(st) THEN saved /\ TurnActive(out.save[1]) ELSE kept
                    /\ req.action = "stop_turn" => (saved /\ TurnIdle(out.save[1]))
                    /\ req.action = "submit_text" =>
                         (out.save # None =>
                            (saved /\ TurnActive(st) /\ TurnIdle(out.save[1])))
                    /\ req.action = "join" => (saved /\ SameTurn(out.save[1], st))
                    /\ req.action = "get_state" => (out.status = 200 /\ out.save = None)

\* After an accepted submit_text a later turn is paused: the room has gone
\* Idle, Active, Idle, Active, Paused, and a resume_turn would be accepted.
C21_Witness ==
  \E k \in DOMAIN redis :
    /\ Live(k)
    /\ redis[k].val.story_so_far # <<>>
    /\ TurnPaused(redis[k].val)
    /\ Out(AdminCall("resume_turn", k)).status = 200
    /\ Out(AdminCall("pause_turn", k)).status = 409

\* C22: next_turn on a live room without writers is answered 409 and saves
\* nothing; no stored record has an active turn (turn_ends_at set, not
\* paused) or a paused turn (turn_paused with turn_remaining_ms set) while
\* its writers are empty.
C22_NoTurnWithoutWriters ==
  /\ \A k \in DOMAIN redis :
       (TurnActive(redis[k].val) \/ TurnPaused(redis[k].val))
         => redis[k].val.writers # <<>>
  /\ \A req \in NextTurnReqs \cup {AdminCall("next_turn", k) : k \in AllKeys} :
       (Live(KeyOf(req)) /\ verifyAdmin(req.auth, now)
          /\ redis[KeyOf(req)].val.writers = <<>>) =>
         /\ Out(req).status = 409
         /\ Out(req).save = None
         /\ ~Out(req).purge

\* A room without writers is live after the clock has moved, and a
\* next_turn on it is answered 409.
C22_Witness ==
  \E k \in DOMAIN redis :
    /\ Live(k)
    /\ redis[k].val.writers = <<>>
    /\ now > redis[k].val.updated_at
    /\ TurnIdle(redis[k].val)
    /\ Out(AdminCall("next_turn", k)).status = 409

JoinBody_stale(read, saved) ==
  [writer_id |-> WriterName(Max(1, Len(read.writers))),
   writer_index |-> Len(saved.writers) - 1]

\* The body of join's answer: writer_id is the name made before the push,
\* writer_index is st.writers.length - 1 after it.
JoinBody(read, saved) ==
  [writer_id |-> WriterName(Len(read.writers) + 1),
   writer_index |-> Len(saved.writers) - 1]

\* C23: a join on a live room with k writers is answered 200, saves the
\* writers with exactly "Writer k+1" appended at the end, and returns that
\* name with writer_index k; it saves turn_ends_at, turn_paused,
\* turn_remaining_ms, current_writer_index, story_so_far and expires_at as
\* they were; with requests served one after another the writer identifiers
\* of a room are pairwise distinct.
C23_JoinAppends ==
  /\ \A req \in JoinReqs :
       Live(KeyOf(req)) =>
         LET st  == redis[KeyOf(req)].val
             k   == Len(st.writers)
             out == Out(req)
         IN  /\ out.status = 200
             /\ out.save # None
             /\ LET new  == out.save[1]
                     body == JoinBody(st, new)
                 IN  /\ new.writers = Append(st.writers, WriterName(k + 1))
                     /\ body.writer_id = WriterName(k + 1)
                     /\ body.writer_index = k
                     /\ new.writers[body.writer_index + 1] = body.writer_id
                     /\ SameTurn(new, st)
                     /\ new.current_writer_index = st.current_writer_index
                     /\ new.story_so_far = st.story_so_far
                     /\ new.expires_at = st.expires_at
  /\ \A k \in DOMAIN redis :
       \A i, j \in DOMAIN redis[k].val.writers :
         redis[k].val.writers[i] = redis[k].val.writers[j] => i = j

\* Two writers have joined a room whose turn was opened between the joins
\* and is still open: the second join kept the turn fields.
C23_Witness ==
  \E k \in DOMAIN redis :
    LET st == redis[k].val
    IN  /\ Live(k)
        /\ st.writers = <<WriterName(1), WriterName(2)>>
        /\ TurnActive(st)
        /\ st.version = 4
        /\ st.current_writer_index = 0

ErrorStatus == {400, 401, 403, 409}

\* The requests of every action but list_rooms, with and without admin token.
FrameReqs ==
  CreateReqs \cup MutatingReqs \cup PublicReqs("get_state") \cup ListedReqs
    \cup {[BaseReq EXCEPT !.action = "status"]}

\* While a room is live, a request answered 400, 401, 403 or 409, and a
\* get_state on a live room, hands nothing to saveRoom and deletes nothing.
ErrorsSaveNothing ==
  \A req \in FrameReqs :
    ((\E k \in DOMAIN redis : Live(k))
       /\ (Out(req).status \in ErrorStatus
             \/ (req.action = "get_state" /\ Live(KeyOf(req))))) =>
      (Out(req).save = None /\ ~Out(req).purge)

\* The step serves a request with an error answer, or a list_rooms.
ErrorOrListStep ==
  \/ ListAll
  \/ \E req \in ListedReqs : Out(req).status \in ErrorStatus /\ ServeListed(req)

\* C24 as stated: a request answered 400, 401, 403 or 409, a get_state and
\* a list_rooms served while a room is live leave the stored record of that
\* room and the live-room index unchanged.
C24_AsStated ==
  /\ []ErrorsSaveNothing
  /\ [][ErrorOrListStep =>
         /\ index' = index
         /\ \A k \in DOMAIN redis :
              Live(k) => (k \in DOMAIN redis' /\ redis'[k] = redis[k])
       ]_vars

\* C24 amended: such a request leaves the stored record of every live room
\* unchanged (version, updated_at and time-to-live included) and removes no
\* live room from the index; the only change it makes is that list_rooms
\* deletes the record and the index entry of each indexed room it finds past
\* expires_at.
C24_ErrorsAndReadsKeepRoom ==
  /\ []ErrorsSaveNothing
  /\ [][ErrorOrListStep =>
         /\ index' \subseteq index
         /\ \A k \in index \ index' :
              k \in DOMAIN redis /\ now > redis[k].val.expires_at
         /\ \A k \in DOMAIN redis \ DOMAIN redis' : now > redis[k].val.expires_at
         /\ \A k \in DOMAIN redis :
              Live(k) => (k \in DOMAIN redis' /\ redis'[k] = redis[k])
         /\ ~ListAll => (index' = index /\ redis' = redis)
       ]_vars

\* A room with a writer is live and indexed, a submit_text of another writer
\* on it is answered 403, and a list_rooms would remove another, expired
\* room from the index.
C24_Witness ==
  \E k, m \in index :
    /\ Live(k)
    /\ redis[k].val.writers # <<>>
    /\ \E req \in ListedReqs :
         KeyOf(req) = k /\ Out(req).status = 403
    /\ m \in DOMAIN redis
    /\ now > redis[m].val.expires_at
    /\ \A ids \in Orders(index) :
         list_rooms(AdminCall("list_rooms", <<>>), ids, redis, now).purge = {m}

\* ------------------------------- overlapping create, delete, cleanup (SpecRace)
\* Requests on one room that overlap in any way, a delete_room and a create
\* included: a request may read before another one's write and write after it.
MaxRaceVersion == 3

RaceReqs ==
  {[BaseReq EXCEPT !.action = "create", !.auth = AdminAuth, !.room_name = <<"r1">>,
                   !.ttl_h = Some(1)],
   PublicCall("join", <<"r1">>),
   AdminCall("stop_turn", <<"r1">>),
   AdminCall("delete_room", <<"r1">>),
   PublicCall("get_state", <<"r1">>)}

\* The request arrives: redis.get and the synchronous block of the handler;
\* what it will write is fixed from here on.
RaceArrive(i, req) ==
  LET out == handler(req, RedisGet(KeyOf(req)), now)
      pc  == IF out.purge THEN "del" ELSE IF out.save # None THEN "set" ELSE "done"
  IN  /\ reqs[i] = Idle
      /\ \A j \in ReqIds : j < i => reqs[j] # Idle
      /\ Bounded(out, MaxRaceVersion)
      /\ reqs' = IF pc = "done" THEN reqs
                 ELSE [reqs EXCEPT ![i] =
                         [pc |-> pc, req |-> req, out |-> out,
                          ttl |-> IF pc = "set" THEN ttlSeconds(out.save[1], now) ELSE 0]]
      /\ overlap' = (overlap \/ (pc # "done" /\ InFlight # {}))
      /\ UNCHANGED <<now, ticks, redis, index, subs, clk, made, links>>

NextRace ==
  \/ \E i \in ReqIds, req \in RaceReqs : RaceArrive(i, req)
  \/ \E i \in ReqIds : SetStep(i)
  \/ \E i \in ReqIds : SaddStep(i)
  \/ \E i \in ReqIds : DelStep(i)
  \/ \E i \in ReqIds : SremStep(i)
  \/ ConcTick

SpecRace == Init /\ [][NextRace]_vars

\* The joins that have read the room and will answer 200.
JoinsInFlight ==
  {i \in InFlight : reqs[i].req.action = "join" /\ reqs[i].pc \in {"set", "sadd"}}

\* The writer_id the join in flight as i answers.
JoinId(i) == JoinBody(reqs[i].out.pre[1], reqs[i].out.save[1]).writer_id

\* C26 as stated: two joins on the same room that both answer 200 answer
\* different writer_id values, also when they overlap.
C26_AsStated ==
  \A i, j \in JoinsInFlight :
    (i # j /\ reqs[i].out.key = reqs[j].out.key) => JoinId(i) # JoinId(j)

\* C26 amended: as long as requests on the room do not overlap, the writers
\* stored are "Writer 1" to "Writer n", each returned by one join, and a join
\* that has read them answers "Writer n+1", an identifier no earlier join of
\* the room has returned (checked while Redis still holds the record).
C26_JoinIdsDistinct ==
  ~overlap =>
    /\ \A k \in DOMAIN redis :
         \A n \in DOMAIN redis[k].val.writers : redis[k].val.writers[n] = WriterName(n)
    /\ \A i \in JoinsInFlight :
         LET k == reqs[i].out.key
         IN  /\ JoinsInFlight = {i}
             /\ (k \in DOMAIN redis /\ reqs[i].pc = "set") =>
                  /\ JoinId(i) = WriterName(Len(redis[k].val.writers) + 1)
                  /\ \A n \in DOMAIN redis[k].val.writers :
                       redis[k].val.writers[n] # JoinId(i)
             /\ (k \in DOMAIN redis /\ reqs[i].pc = "sadd") =>
                  /\ JoinId(i) = redis[k].val.writers[Len(redis[k].val.writers)]
                  /\ \A n \in 1..(Len(redis[k].val.writers) - 1) :
                       redis[k].val.writers[n] # JoinId(i)

\* In a run without overlap the second join of a room has written
\* "Writer 2" and is about to answer.
C26_Witness ==
  /\ ~overlap
  /\ \E i \in JoinsInFlight :
       /\ reqs[i].pc = "sadd"
       /\ JoinId(i) = WriterName(2)
       /\ redis[reqs[i].out.key].val.writers = <<WriterName(1), WriterName(2)>>

\* The record stored under k is the one delete_room saves: expires_at lies
\* before updated_at.
Deleted(k) == k \in DOMAIN redis /\ redis[k].val.expires_at < redis[k].val.updated_at

\* The step is the answer of a delete_room that saved room k.
DeleteReturns(k) ==
  \E i \in ReqIds :
    /\ reqs[i] # Idle
    /\ reqs[i].pc = "sadd"
    /\ reqs[i].req.action = "delete_room"
    /\ reqs[i].out.key = k
    /\ reqs'[i] = Idle

\* No step but the write of a create turns the record delete_room saved
\* into a live one.
StaysDeleted ==
  \A k \in AllKeys :
    (Deleted(k) /\ ~CreateWrites) => ~Live(k)'

C28_AsStated ==
  [][\A k \in DOMAIN redis \cap DOMAIN redis' :
       (~CreateWrites /\ redis'[k].val.version = redis[k].val.version)
         => redis'[k].val = redis[k].val
    ]_vars

\* C28 amended: as long as requests on the room do not overlap, every write
\* but that of a create stores version + 1 of the record its request read,
\* and that record is the one stored last (still stored, or dropped by Redis
\* since); so between two creates the versions of a room's stored contents
\* are all different.
C28_VersionsDiffer ==
  [][~overlap' =>
       \A k \in DOMAIN redis' :
         \/ CreateWrites
         \/ k \in DOMAIN redis /\ redis'[k].val = redis[k].val
         \/ \E i \in InFlight :
              /\ WriteBy(i, reqs[i].req.action)
              /\ reqs[i].out.key = k
              /\ redis'[k].val.version = reqs[i].out.pre[1].version + 1
              /\ k \in DOMAIN redis => redis[k].val = reqs[i].out.pre[1]
    ]_vars

\* In a run without overlap a room has been written three times, and the
\* write of a fourth request is pending.
C28_Witness ==
  /\ ~overlap
  /\ \E i \in InFlight :
       /\ reqs[i].pc = "sadd"
       /\ reqs[i].out.key \in DOMAIN redis
       /\ reqs[i].out.save[1].version = MaxRaceVersion
       /\ redis[reqs[i].out.key].val = reqs[i].out.save[1]
       /\ redis[reqs[i].out.key].val.writers # <<>>

\* C29 as stated: whenever no request is in flight, every room that is
\* stored and not past expires_at is a member of the live-room index, after
\* any interleaving of saves (set, sadd) with the cleanup of an expired room
\* of the same code (del, srem).
C29_AsStated ==
  InFlight = {} => \A k \in DOMAIN redis : Live(k) => k \in index

\* ---------------------------- the invite endpoints and join (SpecInviteJoin)
\* The room code of an invite (character codes of upper-case hex digits) as
\* the text a client sends in the room field of the rooms endpoint.
RoomText(codes) ==
  [i \in 1..Len(codes) |->
     IF codes[i] \in 48..57
     THEN <<"0", "1", "2", "3", "4", "5", "6", "7", "8", "9">>[codes[i] - 47]
     ELSE IF codes[i] \in 65..70
     THEN <<"A", "B", "C", "D", "E", "F">>[codes[i] - 64]
     ELSE "?"]

\* A participant whose claim was answered 200 joins the room of the session.
\* (The histories subs, clk and made follow the rooms of AllKeys only.)
JoinClaimed ==
  /\ links.answer # None
  /\ links.answer[1].status = 200
  /\ Serve(PublicCall("join", RoomText(links.answer[1].room)))

\* The admin creates, through the rooms endpoint, a room named after the
\* code the invite endpoint answered.
CreateIssued ==
  /\ links.issued # None
  /\ Serve([BaseReq EXCEPT !.action = "create", !.auth = AdminAuth,
                           !.room_name = RoomText(links.issued[1].room),
                           !.ttl_h = Some(1)])

NextInviteJoin ==
  \/ CreateRoom
  \/ ClaimRoom
  \/ JoinClaimed
  \/ CreateIssued
  \/ InviteTick

SpecInviteJoin == Init /\ [][NextInviteJoin]_vars

\* C30 as stated: once the invite endpoint has issued a room code with a
\* token and a claim of the token has been answered 200 before the token's
\* expiry, a join on the room of the session is answered 200 with a writer
\* slot, not 404.
C30_AsStated ==
  (/\ links.issued # None
   /\ links.answer # None
   /\ links.answer[1].status = 200
   /\ now < links.issued[1].exp) =>
    LET out == Out(PublicCall("join", RoomText(links.answer[1].room)))
    IN  out.status = 200 /\ out.save # None

\* ------------------------------- the cycle next_turn, submit_text (SpecCycle)
\* One room, created once and joined by up to MaxCycleWriters writers; the
\* admin starts a turn whenever none is open and the current writer submits
\* an empty text while it runs. The clock stands still, so no turn lapses.
MaxCycleWriters == 4

\* A request served as in Spec, the room taking up to MaxCycleWriters writers.
CycleServe(req) ==
  LET out == handler(req, RedisGet(KeyOf(req)), now)
  IN  /\ out.save # None
      /\ Len(out.save[1].writers) <= MaxCycleWriters
      /\ redis' = RedisSet(redis, out.key, out.save[1], ttlSeconds(out.save[1], now), now)
      /\ index' = index \cup {out.key}
      /\ UNCHANGED <<now, ticks, reqs, overlap, subs, clk, made, links>>

\* The admin creates the room; participants join it.
CycleSetup ==
  \/ /\ redis = <<>>
     /\ CycleServe([BaseReq EXCEPT !.action = "create", !.auth = AdminAuth,
                                   !.room_name = <<"r1">>, !.ttl_h = Some(1)])
  \/ CycleServe(PublicCall("join", <<"r1">>))

\* The admin's next_turn, when no turn is open.
CycleNextTurn ==
  /\ Live(<<"r1">>)
  /\ TurnIdle(redis[<<"r1">>].val)
  /\ \E s \in TurnInputs :
       CycleServe([AdminCall("next_turn", <<"r1">>) EXCEPT !.turn_s = s])

\* The submit_text of the current writer.
CycleSubmit ==
  /\ Live(<<"r1">>)
  /\ CurrentWriter(redis[<<"r1">>].val) # None
  /\ CycleServe([PublicCall("submit_text", <<"r1">>) EXCEPT
                   !.writer_id = CurrentWriter(redis[<<"r1">>].val)[1]])

NextCycle ==
  \/ CycleSetup
  \/ CycleNextTurn
  \/ CycleSubmit

\* The cycle is repeated without end: a next_turn or submit_text that stays
\* possible is eventually made.
SpecCycle ==
  Init /\ [][NextCycle]_vars /\ WF_vars(CycleNextTurn) /\ WF_vars(CycleSubmit)

\* The room has two writers.
CycleOfTwo == Live(<<"r1">>) /\ Len(redis[<<"r1">>].val.writers) = 2

\* A turn is running whose current writer is w.
HasTurn(w) ==
  /\ Live(<<"r1">>)
  /\ Active(redis[<<"r1">>].val, now)
  /\ IsCurrent(redis[<<"r1">>].val, w)

\* C25 as stated: in a room of two writers driven by the cycle next_turn,
\* accepted submit_text of the current writer, repeated without end, each of
\* the writers is the current writer of an active turn again and again; no
\* writer is skipped for ever.
C25_AsStated ==
  /\ []<>(CycleOfTwo => HasTurn(WriterName(1)))
  /\ []<>(CycleOfTwo => HasTurn(WriterName(2)))
====
